---- MODULE Spec2Model ----
(***************************************************************************)
(* Model of src/heartbeat_oled.ino: the heartbeat sampling loop of the     *)
(* smart-stetho sketch (adaptive baseline, rising-edge detection with a    *)
(* refractory period, interval-to-BPM conversion, range validation, the    *)
(* scrolling trend buffer and the redraw requests).                        *)
(*                                                                         *)
(* Number representations                                                  *)
(*  - unsigned long (32 bit) values are records [hi, lo] of two 16-bit     *)
(*    limbs, value = hi * 65536 + lo, so that the arithmetic of millis()   *)
(*    keeps its width (all operations are modulo 2^32).                    *)
(*  - float values are records [m, e], value = m * 2^e, with m = 0 or      *)
(*    2^23 <= m < 2^24 (IEEE-754 single precision, non-negative, normal    *)
(*    range); every operation rounds to nearest, ties to even.             *)
(*                                                                         *)
(* Specifications                                                          *)
(*  - Spec: setup() and up to MaxTicks iterations of loop(), over a few    *)
(*    interval lengths and a long quiet period that brings millis() to     *)
(*    its wrap-around.                                                     *)
(*  - SpecWide: the same program over fewer iterations and more interval   *)
(*    lengths (the edges of the BPM window and of the refractory period).  *)
(*  - SpecGraph: mapBpmToY and pushGraph applied to any int argument.      *)
(*  - SpecEma: the program over long runs of a signal that holds one of    *)
(*    three levels (0, 512, 1023) for HoldTicks iterations at a time.      *)
(*  - SpecLive: the program under the fairness its scheduling gives: the   *)
(*    Arduino core calls loop() again as soon as it returns.               *)
(***************************************************************************)
EXTENDS Integers, Sequences, FiniteSets, TLC

VARIABLES
  pc,            \* "setup" | "halted" | "loop": position of the control flow
  now,           \* last value read from millis()            (loop: now)
  ema,           \* baseline, a float                         (line 41)
  prevAbove,     \* classification of the preceding sample    (line 44)
  lastBeatMs,    \* time of the last accepted rising edge     (line 47)
  bpm,           \* last accepted BPM                         (line 51)
  bpmDisplayed,  \* BPM shown by drawUI                       (line 52)
  graphBuf,      \* trend buffer, SCREEN_WIDTH slots            (line 55)
  lastRefresh,   \* static local of loop()                    (line 186)
  \* what the last tick of loop() did (observations, reset on every tick)
  sample,        \* raw sample read by analogRead
  candidate,     \* the tick saw a rising edge (isAbove && !prevAbove)
  passed,        \* ... and it passed the refractory check
  computed,      \* ... and an interval and a BPM were computed
  rr,            \* the interval computed (unsigned long), else zero
  newBpm,        \* the BPM candidate computed, else NoBpm
  accepted,      \* the BPM candidate was inside the window
  events,        \* the writes and calls of the tick's beat branch and refresh, in order
  \* history of the rising-edge candidates
  hasCand,       \* some earlier tick saw a candidate
  lastCandMs,    \* time of the latest candidate
  lastCandPassed,\* whether the latest candidate passed the refractory check
  hasPass,       \* some earlier candidate passed the refractory check
  lastPassMs,    \* time of the latest candidate that passed it
  periodic,      \* every candidate so far came exactly 600 ms after the one before
  pushes,        \* number of calls of pushGraph so far
  accepts,       \* number of BPM candidates accepted (writes of bpm) so far
  rejects,       \* number of BPM candidates computed and rejected so far
  gap,           \* time that really passed between the latest edge that passed the
                 \* refractory check before this tick and this tick's read of
                 \* millis() (a natural number, not a clock value); 0 if none
  ticks,         \* number of loop() iterations run so far (bounded)
  \* the trend buffer's functions applied on their own (SpecGraph)
  mapV,          \* the argument given to mapBpmToY and pushGraph
  mapY,          \* mapBpmToY(mapV)
  mapYNext       \* mapBpmToY(mapV + 1)

vars == <<pc, now, ema, prevAbove, lastBeatMs, bpm, bpmDisplayed, graphBuf,
          lastRefresh, sample, candidate, passed, computed, rr, newBpm,
          accepted, events, hasCand, lastCandMs, lastCandPassed, hasPass,
          lastPassMs, periodic, pushes, accepts, rejects, gap, ticks, mapV,
          mapY, mapYNext>>

(***************************************************************************)
(* Bounds of the model                                                     *)
(***************************************************************************)
MaxTicks == 5      \* iterations of loop() under Spec
MaxTicksWide == 3  \* iterations of loop() under SpecWide
MaxPushes == 1     \* calls of pushGraph under SpecGraph
MaxTicksLive == 8  \* iterations of loop() under SpecLive
MaxTicksEma == 384 \* iterations of loop() under SpecEma
HoldTicks == 96    \* iterations for which the signal holds a level under SpecEma

(***************************************************************************)
(* Program constants                                                       *)
(***************************************************************************)
SCREEN_WIDTH == 128
SCREEN_HEIGHT == 64
thresholdDelta == 30
refractoryMs == 250
graphTop == 20
graphBottom == SCREEN_HEIGHT - 1
RefreshMs == 500
MsPerMinute == 60000
BpmMin == 60
BpmMax == 130
MidBpm == 95
AdcMax == 1023
DelayMs == 5

NoBpm == -1
Placeholder == -1

(***************************************************************************)
(* unsigned long: 32-bit modular arithmetic on two 16-bit limbs            *)
(***************************************************************************)
W16 == 2^16

U32(n) == [hi |-> (n \div W16) % W16, lo |-> n % W16]

U32Zero == U32(0)

U32Add(a, b) ==
  LET l == a.lo + b.lo
  IN  [hi |-> (a.hi + b.hi + (l \div W16)) % W16, lo |-> l % W16]

U32Sub(a, b) ==
  LET borrow == IF a.lo < b.lo THEN 1 ELSE 0
  IN  [hi |-> (a.hi - b.hi - borrow + 2 * W16) % W16,
       lo |-> (a.lo - b.lo + W16) % W16]

\* the value of an unsigned long below 2^31
ToNat(a) == a.hi * W16 + a.lo

\* a > n for an unsigned long a and a constant 0 <= n < 65536
U32GtConst(a, n) == a.hi > 0 \/ a.lo > n

\* 60000UL / d, the unsigned long quotient (d is never zero where the code divides)
U32DivFrom(n, d) == IF d.hi > 0 THEN 0 ELSE n \div d.lo

(***************************************************************************)
(* float: IEEE-754 single precision on non-negative normal numbers         *)
(***************************************************************************)
RECURSIVE BitLen(_)
BitLen(n) == IF n = 0 THEN 0 ELSE 1 + BitLen(n \div 2)

FZero == [m |-> 0, e |-> 0]

\* The float nearest to n * 2^e (n < 2^31); sticky says that the exact value
\* has further non-zero bits below n's last bit.  Ties go to the even mantissa.
FRound(n, e, sticky) ==
  IF n = 0 THEN FZero
  ELSE LET bits == BitLen(n)
       IN  IF bits <= 24
           THEN [m |-> n * 2^(24 - bits), e |-> e - (24 - bits)]
           ELSE LET sh   == bits - 24
                    q    == n \div 2^sh
                    r    == n % 2^sh
                    half == 2^(sh - 1)
                    up   == \/ r > half
                            \/ r = half /\ sticky
                            \/ r = half /\ ~sticky /\ q % 2 = 1
                    m1   == IF up THEN q + 1 ELSE q
                IN  IF m1 = 2^24
                    THEN [m |-> 2^23, e |-> e + sh + 1]
                    ELSE [m |-> m1, e |-> e + sh]

\* (float) of an int in 0 .. 2^24: exact
IntToFloat(i) == FRound(i, 0, FALSE)

\* a * b: the 48-bit product of the mantissas in 12-bit limbs, then rounded
FMul(a, b) ==
  IF a.m = 0 \/ b.m = 0 THEN FZero
  ELSE LET ah  == a.m \div 4096
           al  == a.m % 4096
           bh  == b.m \div 4096
           bl  == b.m % 4096
           mid == ah * bl + al * bh
           lowpart == (mid % 4096) * 4096 + al * bl
           H   == ah * bh + (mid \div 4096) + (lowpart \div 2^24)
           L   == lowpart % 2^24
       IN  FRound(H * 4 + (L \div 2^22), a.e + b.e + 22, L % 2^22 # 0)

\* a + b: the smaller operand is aligned with three extra bits and a sticky bit
FAdd(a, b) ==
  IF a.m = 0 THEN b
  ELSE IF b.m = 0 THEN a
  ELSE LET x  == IF a.e >= b.e THEN a ELSE b
           y  == IF a.e >= b.e THEN b ELSE a
           d  == x.e - y.e
           ny == IF d > 27 THEN 0 ELSE (y.m * 8) \div 2^d
           st == IF d > 27 THEN TRUE ELSE (y.m * 8) % 2^d # 0
       IN  FRound(x.m * 8 + ny, x.e - 3, st)

\* a > b
FGt(a, b) ==
  IF a.m = 0 THEN FALSE
  ELSE IF b.m = 0 THEN TRUE
  ELSE a.e > b.e \/ (a.e = b.e /\ a.m > b.m)

\* 0.05f = 13421773 * 2^-28
emaAlpha == [m |-> 13421773, e |-> -28]

\* 1.0f - emaAlpha, the float nearest to (2^28 - 13421773) * 2^-28
OneMinusAlpha == FRound(2^28 - emaAlpha.m, emaAlpha.e, FALSE)

EmaInit == IntToFloat(512)

\* mutant of EmaUpdate: the two weights are exchanged
EmaUpdateSwapped(e, raw) ==
  FAdd(FMul(emaAlpha, e), FMul(OneMinusAlpha, IntToFloat(raw)))

\* line 154: ema = (1.0f - emaAlpha) * ema + emaAlpha * raw
EmaUpdate(e, raw) ==
  FAdd(FMul(OneMinusAlpha, e), FMul(emaAlpha, IntToFloat(raw)))

\* line 157: isAbove = (raw > (ema + thresholdDelta))
IsAbove(raw, e) == FGt(IntToFloat(raw), FAdd(e, IntToFloat(thresholdDelta)))

(***************************************************************************)
(* Trend buffer                                                            *)
(***************************************************************************)
\* graphBuf is a sequence: the slot graphBuf[i] of the code is element i + 1
Slots == 1 .. SCREEN_WIDTH

\* (uint8_t) of a long
Uint8(y) == y % 256

\* mutant of mapBpmToY: the axis is not inverted (60 BPM at the top)
mapBpmToYUpright(v) ==
  LET v1 == IF v < 60 THEN 60 ELSE v
      v2 == IF v1 > 130 THEN 130 ELSE v1
      y  == graphTop + ((graphBottom - graphTop) * (v2 - 60)) \div (130 - 60)
  IN  y % 256

\* lines 60-69
mapBpmToY(v) ==
  LET v1 == IF v < 60 THEN 60 ELSE v
      v2 == IF v1 > 130 THEN 130 ELSE v1
      y  == graphBottom - ((graphBottom - graphTop) * (v2 - 60)) \div (130 - 60)
      y1 == IF y < graphTop THEN graphTop ELSE y
      y2 == IF y1 > graphBottom THEN graphBottom ELSE y1
  IN  Uint8(y2)

\* mutant of ShiftLeft: the loop runs downwards, so every slot takes the last value
ShiftLeftDownwards(g, lo, hi) ==
  [k \in DOMAIN g |-> IF k - 1 >= lo /\ k - 1 < hi THEN g[hi + 1] ELSE g[k]]

\* lines 142-144: the assignments graphBuf[i] = graphBuf[i + 1] for i = lo .. hi - 1,
\* executed one after the other, in place, in increasing order of i (the
\* range is split in two halves only to keep the evaluation shallow)
RECURSIVE ShiftLeft(_, _, _)
ShiftLeft(g, lo, hi) ==
  IF lo >= hi THEN g
  ELSE IF hi = lo + 1 THEN [g EXCEPT ![lo + 1] = g[lo + 2]]
  ELSE LET mid == (lo + hi) \div 2
       IN  CHOOSE r \in {ShiftLeft(h, mid, hi) : h \in {ShiftLeft(g, lo, mid)}} : TRUE

\* lines 140-147
pushGraph(g, validBpm) ==
  [ShiftLeft(g, 0, SCREEN_WIDTH - 1) EXCEPT ![SCREEN_WIDTH] = mapBpmToY(validBpm)]

\* lines 91-95: the buffer after setup
MidLine == [i \in Slots |-> mapBpmToY(MidBpm)]

\* line 55: a global array is zero-initialised
ZeroBuf == [i \in Slots |-> 0]

(***************************************************************************)
(* drawUI: what the big BPM text shows (lines 107-114)                     *)
(***************************************************************************)
\* mutant of DrawText: the number is printed without the range check
DrawTextRaw(shown) == shown

DrawText(shown) ==
  IF shown >= 60 /\ shown <= 130 THEN shown ELSE Placeholder

Ev(op, site, arg) == [op |-> op, site |-> site, arg |-> arg]

drawUI(site, shown) == Ev("drawUI", site, DrawText(shown))

(***************************************************************************)
(* The steps of loop()                                                     *)
(***************************************************************************)
\* mutant of RisingEdge: level-triggered
RisingEdgeLevel(isAbove, prev) == isAbove

\* line 162
RisingEdge(isAbove, prev) == isAbove /\ ~prev

\* mutant of RefractoryOk: the time itself is compared, not the elapsed time
RefractoryNoAnchor(t, last) == U32GtConst(t, refractoryMs)

\* mutant of RefractoryOk: an edge exactly one refractory period later passes
RefractoryAtLeast(t, last) ==
  LET d == U32Sub(t, last) IN d.hi > 0 \/ d.lo >= refractoryMs

\* line 164: now - lastBeatMs > refractoryMs
RefractoryOk(t, last) == U32GtConst(U32Sub(t, last), refractoryMs)

\* line 165
HasPrevBeat(last) == last # U32Zero

\* mutant of Interval: the distance of the two clock values, without the wrap
IntervalNoWrap(t, last) ==
  IF t.hi < last.hi \/ (t.hi = last.hi /\ t.lo < last.lo)
  THEN U32Sub(last, t)
  ELSE U32Sub(t, last)

\* line 166
Interval(t, last) == U32Sub(t, last)

\* (int) of an unsigned long quotient below 2^16: int is 16 bits on the AVR boards
IntCast(q) == IF q >= 2^15 THEN q - 2^16 ELSE q

\* mutant of BpmOf: rounds to the nearest integer
BpmOfRounded(r) == IntCast(U32DivFrom(MsPerMinute + r.lo \div 2, r))

\* line 168: (int)(60000UL / rr)
BpmOf(r) == IntCast(U32DivFrom(MsPerMinute, r))

\* mutants of InWindow: a bound is missing, or both are exclusive
InWindowNoLower(b) == b <= BpmMax

InWindowNoUpper(b) == b >= BpmMin

InWindowExclusive(b) == b > BpmMin /\ b < BpmMax

\* line 170
InWindow(b) == b >= BpmMin /\ b <= BpmMax

\* mutant of NextLastBeat: the timestamp moves only when the BPM is accepted
NextLastBeatOnAccept(pass, acc, t, last) == IF acc THEN t ELSE last

\* line 178, inside the refractory branch and outside the branch of line 165
NextLastBeat(pass, acc, t, last) == IF pass THEN t ELSE last

\* mutant of BeatEvents: the redraw is requested before the state is updated
BeatEventsRedrawFirst(b, old) ==
  << drawUI("beat", old), Ev("bpm", "beat", b), Ev("bpmDisplayed", "beat", b),
     Ev("pushGraph", "beat", b) >>

\* lines 171-174: the writes and calls of an accepted beat, in program order
\* (b is the accepted BPM, old the value bpmDisplayed had before)
BeatEvents(b, old) ==
  << Ev("bpm", "beat", b), Ev("bpmDisplayed", "beat", b),
     Ev("pushGraph", "beat", b), drawUI("beat", b) >>

\* mutant of RefreshDue: the time itself is compared, not the time since the
\* last refresh
RefreshDueNoAnchor(t, last) == U32GtConst(t, RefreshMs)

\* line 187: now - lastRefresh > 500
RefreshDue(t, last) == U32GtConst(U32Sub(t, last), RefreshMs)

(***************************************************************************)
(* Inputs: the samples analogRead returns and the time between two reads   *)
(* of millis() (at least the delay(5) of line 193)                         *)
(***************************************************************************)
RawSet == {512, AdcMax}

\* 2^32 - 600 ms: a long quiet period, which ends 600 ms before millis() wraps
\* around.  It stands for the iterations that read the resting level 512 while
\* the baseline rests at 512.0 and the signal is below the threshold: each of
\* them leaves ema, prevAbove, lastBeatMs, bpm and graphBuf as they are (cf. Quiet).
LongIdle == [hi |-> W16 - 1, lo |-> W16 - 600]

DtMs == {DelayMs, 100, 245, 500}

DtSet == {U32(d) : d \in DtMs} \cup {LongIdle}

\* a wider choice of times: the intervals around the edges of the BPM window and
\* of the refractory period, and a dead period of 70 s (longer than 60000 ms)
DtMsWide == {DelayMs, 245, 246, 450, 453, 454, 456, 495, 595, 979, 995, 996,
             1011, 1012, 70000}

DtSetWide == {U32(d) : d \in DtMsWide}

(***************************************************************************)
(* Initial state: the globals as initialised at lines 41-55 and 186        *)
(***************************************************************************)
Init ==
  /\ pc = "setup"
  /\ now = U32Zero
  /\ ema = EmaInit
  /\ prevAbove = FALSE
  /\ lastBeatMs = U32Zero
  /\ bpm = 0
  /\ bpmDisplayed = 0
  /\ graphBuf = ZeroBuf
  /\ lastRefresh = U32Zero
  /\ sample = 0
  /\ candidate = FALSE
  /\ passed = FALSE
  /\ computed = FALSE
  /\ rr = U32Zero
  /\ newBpm = NoBpm
  /\ accepted = FALSE
  /\ events = <<>>
  /\ hasCand = FALSE
  /\ lastCandMs = U32Zero
  /\ lastCandPassed = FALSE
  /\ hasPass = FALSE
  /\ lastPassMs = U32Zero
  /\ periodic = TRUE
  /\ pushes = 0
  /\ accepts = 0
  /\ rejects = 0
  /\ gap = 0
  /\ ticks = 0
  /\ mapV = 0
  /\ mapY = 0
  /\ mapYNext = 0

loopVars == <<now, ema, prevAbove, lastBeatMs, bpm, bpmDisplayed, lastRefresh,
              sample, candidate, passed, computed, rr, newBpm, accepted,
              events, hasCand, lastCandMs, lastCandPassed, hasPass, lastPassMs,
              periodic, pushes, accepts, rejects, gap, ticks, mapV, mapY,
              mapYNext>>

\* setup(), display.begin succeeded (lines 71-96)
SetupOk ==
  /\ pc = "setup"
  /\ graphBuf' = MidLine
  /\ pc' = "loop"
  /\ UNCHANGED loopVars

\* setup(), display.begin failed: for (;;) {} (lines 75-80)
SetupFail ==
  /\ pc = "setup"
  /\ pc' = "halted"
  /\ UNCHANGED <<graphBuf, loopVars>>

\* mutant of Halted: the initialisation is tried again
HaltedRetries ==
  /\ pc = "halted"
  /\ pc' = "setup"
  /\ UNCHANGED <<graphBuf, loopVars>>

\* one turn of the for (;;) {} of line 77
Halted ==
  /\ pc = "halted"
  /\ UNCHANGED vars

\* one iteration of loop() (lines 149-194): raw is the sample read at line 151,
\* dt the time between the previous read of millis() and the one at line 159
Tick(raw, dt) ==
  /\ pc = "loop"
  /\ \E ema1 \in {EmaUpdate(ema, raw)} :
     \E isAbove \in {IsAbove(raw, ema1)} :
     \E now1 \in {U32Add(now, dt)} :
     LET edge    == RisingEdge(isAbove, prevAbove)
         pass    == edge /\ RefractoryOk(now1, lastBeatMs)
         comp    == pass /\ HasPrevBeat(lastBeatMs)
         rr1     == Interval(now1, lastBeatMs)
         nb      == BpmOf(rr1)
         acc     == comp /\ InWindow(nb)
         bpm1    == IF acc THEN nb ELSE bpm
         shown1  == IF acc THEN bpm1 ELSE bpmDisplayed
         beatEv  == IF acc THEN BeatEvents(nb, bpmDisplayed) ELSE << >>
         due     == RefreshDue(now1, lastRefresh)
         tickEv  == IF due THEN << drawUI("periodic", shown1) >> ELSE << >>
     IN  /\ sample' = raw
         /\ ema' = ema1
         /\ now' = now1
         /\ candidate' = edge
         /\ passed' = pass
         /\ computed' = comp
         /\ rr' = IF comp THEN rr1 ELSE U32Zero
         /\ newBpm' = IF comp THEN nb ELSE NoBpm
         /\ accepted' = acc
         /\ bpm' = bpm1
         /\ bpmDisplayed' = shown1
         /\ graphBuf' = IF acc THEN pushGraph(graphBuf, bpm1) ELSE graphBuf
         /\ lastBeatMs' = NextLastBeat(pass, acc, now1, lastBeatMs)
         /\ prevAbove' = isAbove
         /\ lastRefresh' = IF due THEN now1 ELSE lastRefresh
         /\ events' = beatEv \o tickEv
         /\ hasCand' = (hasCand \/ edge)
         /\ lastCandMs' = IF edge THEN now1 ELSE lastCandMs
         /\ lastCandPassed' = IF edge THEN pass ELSE lastCandPassed
         /\ hasPass' = (hasPass \/ pass)
         /\ lastPassMs' = IF pass THEN now1 ELSE lastPassMs
         /\ periodic' = IF edge /\ hasCand
                         THEN periodic /\ U32Sub(now1, lastCandMs) = U32(600)
                         ELSE periodic
         /\ pushes' = IF acc THEN pushes + 1 ELSE pushes
         /\ accepts' = IF acc THEN accepts + 1 ELSE accepts
         /\ rejects' = IF comp /\ ~acc THEN rejects + 1 ELSE rejects
         /\ gap' = IF hasPass
                    THEN (IF passed THEN 0 ELSE gap) + ToNat(dt)
                    ELSE 0
         /\ ticks' = ticks + 1
  /\ UNCHANGED <<pc, mapV, mapY, mapYNext>>

\* the state in which iterations that read 512 change nothing but the clock
Quiet == ema = EmaInit /\ ~prevAbove /\ EmaUpdate(ema, 512) = ema

Loop ==
  /\ ticks < MaxTicks
  /\ \E raw \in RawSet, dt \in DtSet :
       /\ dt = LongIdle => Quiet
       /\ Tick(raw, dt)

Next == SetupOk \/ SetupFail \/ Halted \/ Loop

Spec == Init /\ [][Next]_vars

\* the same program, over fewer iterations and more interval lengths
LoopWide ==
  /\ ticks < MaxTicksWide
  /\ \E raw \in RawSet, dt \in DtSetWide : Tick(raw, dt)

NextWide == SetupOk \/ SetupFail \/ Halted \/ LoopWide

SpecWide == Init /\ [][NextWide]_vars

\* the functions of the trend buffer on their own: mapBpmToY and pushGraph applied
\* to any int argument, after setup
MapArgs == -20 .. 300

Apply(v) ==
  /\ pc = "loop"
  /\ pushes < MaxPushes
  /\ mapV' = v
  /\ mapY' = mapBpmToY(v)
  /\ mapYNext' = mapBpmToY(v + 1)
  /\ graphBuf' = pushGraph(graphBuf, v)
  /\ pushes' = pushes + 1
  /\ UNCHANGED <<pc, now, ema, prevAbove, lastBeatMs, bpm, bpmDisplayed,
                 lastRefresh, sample, candidate, passed, computed, rr, newBpm,
                 accepted, events, hasCand, lastCandMs, lastCandPassed, hasPass,
                 lastPassMs, periodic, accepts, rejects, gap, ticks>>

ApplyAny == \E v \in MapArgs : Apply(v)

NextGraph == SetupOk \/ ApplyAny

SpecGraph == Init /\ [][NextGraph]_vars

\* long runs: the loop samples at its fastest rate (delay(5) between two reads)
\* a signal that holds one of the levels 0, 512 and 1023 for HoldTicks
\* iterations before it may move to another one
RawEma == {0, 512, AdcMax}

LoopEma ==
  /\ ticks < MaxTicksEma
  /\ \E raw \in RawEma :
       /\ ticks % HoldTicks # 0 => raw = sample
       /\ Tick(raw, U32(DelayMs))

NextEma == SetupOk \/ SetupFail \/ Halted \/ LoopEma

SpecEma == Init /\ [][NextEma]_vars

\* the program with its scheduling: main() of the Arduino core runs setup() once
\* and then loop() for ever, so an iteration that can run does run; the reads of
\* millis() are 245 ms or 500 ms apart (two ticks of 245 ms do not exceed the
\* refresh period, one of 500 ms does not either)
DtMsLive == {245, 500}

DtSetLive == {U32(d) : d \in DtMsLive}

LoopLive ==
  /\ ticks < MaxTicksLive
  /\ \E raw \in RawSet, dt \in DtSetLive : Tick(raw, dt)

NextLive == SetupOk \/ SetupFail \/ Halted \/ LoopLive

\* the scheduling: an iteration of loop() starts whenever one can.  LoopLive is
\* enabled exactly when pc = "loop" and ticks < MaxTicksLive (Tick takes every
\* sample and every time), and the steps of NextLive that change ticks are the
\* steps of LoopLive, so weak fairness of LoopRuns is weak fairness of LoopLive
LoopRuns == pc = "loop" /\ ticks < MaxTicksLive /\ ticks' = ticks + 1

SpecLive == Init /\ [][NextLive]_vars /\ WF_ticks(LoopRuns)

(***************************************************************************)
(* Properties                                                              *)
(***************************************************************************)
\* the step is one iteration of loop()
TickStep == pc = "loop" /\ ticks' = ticks + 1

\* a < n for an unsigned long a and a constant 0 <= n < 65536
U32LtConst(a, n) == a.hi = 0 /\ a.lo < n

\* C1: bpm is always its initial value 0 or a value in 60..130, and a tick whose
\* computed candidate lies outside the window leaves bpm as it was.
C1_BpmInWindow ==
  /\ [](bpm = 0 \/ (bpm >= 60 /\ bpm <= 130))
  /\ [][(TickStep /\ computed' /\ (newBpm' < 60 \/ newBpm' > 130)) => bpm' = bpm]_vars

\* C1 witness: a candidate above the window was computed after a BPM had been
\* accepted, and bpm still holds the accepted value.
C1_Witness == computed /\ newBpm > 130 /\ bpm = 100

\* C2 as stated, for candidates that follow the first accepted beat: of two
\* successive rising-edge candidates less than 250 ms apart, the first updated
\* lastBeatMs and the second did not.
C2_Original ==
  [][(TickStep /\ candidate' /\ hasCand /\ hasPass
        /\ U32LtConst(U32Sub(now', lastCandMs), 250))
      => (lastCandPassed /\ ~passed' /\ lastBeatMs' = lastBeatMs)]_vars

\* C2 amended: a rising-edge candidate less than 250 ms after a candidate that
\* updated lastBeatMs is suppressed (lastBeatMs keeps the earlier time), so of two
\* candidates less than 250 ms apart at most one updates lastBeatMs.
C2_SecondSuppressed ==
  [][(TickStep /\ candidate' /\ hasPass
        /\ U32LtConst(U32Sub(now', lastPassMs), 250))
      => (~passed' /\ lastBeatMs' = lastBeatMs /\ lastBeatMs' = lastPassMs)]_vars

\* C2 witness: a candidate was suppressed less than 250 ms after an accepted one.
C2_Witness ==
  /\ candidate /\ ~passed /\ hasPass
  /\ U32LtConst(U32Sub(now, lastPassMs), 250)
  /\ lastBeatMs = lastPassMs

\* C3 as stated: the first rising-edge candidate after startup, seen while
\* lastBeatMs is 0, sets lastBeatMs to the current time and computes no BPM.
C3_FirstCandidate ==
  [][(TickStep /\ candidate' /\ ~hasCand /\ lastBeatMs = U32Zero)
      => /\ lastBeatMs' = now'
         /\ ~computed'
         /\ bpm' = bpm /\ bpmDisplayed' = bpmDisplayed /\ graphBuf' = graphBuf]_vars

\* C4 as stated: while the rising edges come exactly 600 ms apart, every candidate
\* that passes the refractory check after the first one that did computes
\* BPM = 100, is accepted, sets bpm to 100 and pushes one value.
C4_Periodic600 ==
  [][(TickStep /\ candidate' /\ periodic' /\ passed' /\ hasPass)
      => /\ computed' /\ newBpm' = 100 /\ accepted'
         /\ bpm' = 100
         /\ pushes' = pushes + 1
         /\ graphBuf'[SCREEN_WIDTH] = mapBpmToY(100)]_vars

\* C5: a computed BPM candidate is accepted if and only if 60 <= candidate <= 130,
\* and nothing is accepted that was not computed; an accepted candidate becomes bpm.
C5_AcceptIff ==
  /\ computed => (accepted <=> (newBpm >= 60 /\ newBpm <= 130))
  /\ accepted => (computed /\ bpm = newBpm)
  /\ (computed /\ newBpm \in {59, 131}) => ~accepted
  /\ (computed /\ newBpm \in {60, 130}) => accepted

\* C5 witness: the candidate 131 was computed and rejected.
C5_Witness == computed /\ newBpm = 131 /\ ~accepted /\ bpm = 0

\* C6: whenever a BPM candidate is computed, the interval is the time since the
\* previous accepted edge and the candidate is the quotient of 60000 by it,
\* truncated: 500 gives 120, 1000 gives 60, 461 gives 130.
C6_Quotient ==
  [][(TickStep /\ computed') =>
       LET d == ToNat(now') - ToNat(lastBeatMs)
       IN  /\ ToNat(rr') = d
           /\ d > 0
           /\ newBpm' * d <= 60000
           /\ 60000 < (newBpm' + 1) * d
           /\ (d = 500 => newBpm' = 120)
           /\ (d = 1000 => newBpm' = 60)
           /\ (d = 461 => newBpm' = 130)]_vars

\* C6 witness: the interval 461 gave the candidate 130.
C6_Witness == computed /\ rr = U32(461) /\ newBpm = 130

\* C7: a tick sees a candidate exactly when its sample is classified above and the
\* preceding sample was not; prevAbove takes the classification of the current
\* sample on every tick, whatever the refractory check decides; so no candidate
\* fires while the signal stays above, nor when it falls.
C7_RisingEdgeOnly ==
  [][TickStep =>
       LET above == IsAbove(sample', ema')
       IN  /\ candidate' = (above /\ ~prevAbove)
           /\ prevAbove' = above
           /\ (prevAbove => ~candidate')
           /\ (~above => ~candidate')]_vars

\* C7 witness: a candidate was suppressed by the refractory check, the signal
\* stayed above on the next tick, and that tick saw no candidate.
C7_Witness ==
  /\ hasCand /\ ~lastCandPassed /\ ~candidate
  /\ prevAbove /\ sample = AdcMax /\ now # lastCandMs

\* C8: the trend buffer always has exactly 128 slots, and a tick that calls
\* pushGraph(v) moves every slot one place to the left (new slot i = old slot
\* i + 1 for i < 127) and puts mapBpmToY(v) in the last slot.
C8_PushFifo ==
  /\ [](DOMAIN graphBuf = 1 .. 128)
  /\ [][(TickStep /\ pushes' # pushes) =>
          /\ pushes' = pushes + 1
          /\ \A i \in 0 .. 126 : graphBuf'[i + 1] = graphBuf[i + 2]
          /\ graphBuf'[128] = mapBpmToY(bpm')]_vars

\* C8 witness: two pushes of different values, the older one now in slot 126.
C8_Witness ==
  /\ pushes = 2
  /\ graphBuf[126] = mapBpmToY(MidBpm)
  /\ graphBuf[127] = mapBpmToY(100)
  /\ graphBuf[128] = mapBpmToY(122)

\* C9: mapBpmToY does not increase when its argument grows, maps 60 to 63 and
\* 130 to 20, maps every argument below 60 as 60 and every argument above 130
\* as 130, and returns values in 20..63; every slot of the trend buffer is in
\* 20..63 after setup and after every push.
C9_MapMonotoneClamped ==
  /\ pc = "loop" => \A i \in Slots : graphBuf[i] >= 20 /\ graphBuf[i] <= 63
  /\ pushes > 0 =>
       /\ mapYNext <= mapY
       /\ mapY >= 20 /\ mapY <= 63
       /\ (mapV = 60 => mapY = 63)
       /\ (mapV = 130 => mapY = 20)
       /\ (mapV < 60 => mapY = 63)
       /\ (mapV > 130 => mapY = 20)
       /\ graphBuf[SCREEN_WIDTH] = mapY

\* C9 witness: an argument above 130 was mapped and pushed as 130 is.
C9_Witness == pushes = 1 /\ mapV = 131 /\ mapY = 20 /\ graphBuf[128] = 20

\* C10: a tick with a rising edge whose BPM is outside 60..130, or with a rising
\* edge inside the refractory window, leaves bpm, bpmDisplayed and the trend
\* buffer unchanged and makes no beat-triggered redraw.
C10_NoiseDiscarded ==
  [][(TickStep /\ candidate' /\
        ((computed' /\ (newBpm' < 60 \/ newBpm' > 130))
         \/ ~U32GtConst(U32Sub(now', lastBeatMs), 250)))
      => /\ bpm' = bpm
         /\ bpmDisplayed' = bpmDisplayed
         /\ graphBuf' = graphBuf
         /\ pushes' = pushes
         /\ \A k \in 1 .. Len(events') :
              ~(events'[k].op = "drawUI" /\ events'[k].site = "beat")]_vars

\* C10 witness: after BPM 100 was accepted, a rising edge inside the refractory
\* window left the BPM state and the buffer alone.
C10_Witness ==
  /\ candidate /\ ~passed /\ hasPass /\ now # lastBeatMs
  /\ bpm = 100 /\ bpmDisplayed = 100 /\ pushes = 1
  /\ graphBuf[128] = mapBpmToY(100) /\ graphBuf[127] = mapBpmToY(MidBpm)

\* the tick's events hold a redraw requested by the periodic refresh
PeriodicRedraw(evs) ==
  \E k \in 1 .. Len(evs) : evs[k].op = "drawUI" /\ evs[k].site = "periodic"

\* the number of ticks after which more than 500 ms have passed, whatever the
\* times between the reads of millis() under SpecLive
Horizon == RefreshMs \div 245 + 1

\* C11: a tick requests a periodic redraw exactly when more than 500 ms have
\* passed since the last periodic refresh (and then restarts the period), whether
\* or not the tick detects a beat; and, while loop() keeps running, a tick without
\* a periodic redraw is followed by a tick with one, again and again, also when
\* no rising edge ever occurs; after every tick at most 500 ms have passed
\* since the last periodic refresh.
C11_PeriodicRedraw ==
  /\ []((pc = "loop" /\ ticks > 0)
          => ~U32GtConst(U32Sub(now, lastRefresh), 500))
  /\ [][TickStep =>
          LET due == U32GtConst(U32Sub(now', lastRefresh), 500)
          IN  /\ PeriodicRedraw(events') <=> due
              /\ lastRefresh' = IF due THEN now' ELSE lastRefresh
              /\ Cardinality({k \in 1 .. Len(events') :
                                events'[k].site = "periodic"}) <= 1]_vars
  /\ (pc = "loop" /\ ticks + Horizon <= MaxTicksLive /\ ~PeriodicRedraw(events))
       ~> PeriodicRedraw(events)

\* C11 witness: no rising edge has ever occurred and the periodic refresh has
\* just requested its second redraw (at 735 ms and at 1470 ms).
C11_Witness ==
  /\ ~hasCand /\ ticks = 6 /\ now = U32(1470)
  /\ lastRefresh = now /\ PeriodicRedraw(events)

\* C12: once display.begin has failed the control flow stays halted for ever: no
\* iteration of loop() has run or will run, no sample was read, no redraw was
\* requested, the detection state and the trend buffer are as the program
\* started with, and setup is not entered again.
C12_FailStop ==
  /\ [](pc = "halted" =>
          /\ ticks = 0 /\ sample = 0 /\ events = << >>
          /\ now = U32Zero /\ ema = EmaInit /\ ~prevAbove
          /\ lastBeatMs = U32Zero /\ lastRefresh = U32Zero
          /\ bpm = 0 /\ bpmDisplayed = 0 /\ graphBuf = ZeroBuf
          /\ ~hasCand /\ pushes = 0)
  /\ [][pc = "halted" => (pc' = "halted" /\ UNCHANGED vars)]_vars

\* C12 witness: the initialisation failed and the program is halted.
C12_Witness == pc = "halted" /\ ticks = 0 /\ graphBuf = ZeroBuf

\* C13: whenever an interval is computed it is the time that really passed since
\* the previous accepted edge (counted without any wrap-around), also when
\* millis() wrapped around between the two edges, and the BPM candidate is the
\* quotient of 60000 by that time.
C13_ModularInterval ==
  [][(TickStep /\ computed') =>
       /\ gap' > 0
       /\ rr' = U32(gap')
       /\ newBpm' = 60000 \div gap']_vars

\* C13 witness: an edge was accepted 100 ms before the wrap-around and the next
\* one 390 ms after it; the interval computed is 490 ms.
C13_Witness ==
  /\ computed /\ accepted /\ gap = 490 /\ rr = U32(490)
  /\ now = U32(390) /\ lastBeatMs = now /\ bpm = 122

\* C14: every interval from which a BPM is computed is greater than 250 ms, so
\* the divisor of 60000 / rr is never zero; and an edge that passes the
\* refractory check comes more than 250 ms, in clock values and in real time,
\* after the previous edge that passed it.
C14_IntervalAboveRefractory ==
  /\ [](computed => (rr # U32Zero /\ U32GtConst(rr, 250) /\ gap > 250))
  /\ []((passed /\ gap > 0) => gap > 250)
  /\ [][(TickStep /\ passed' /\ hasPass)
          => U32GtConst(U32Sub(now', lastPassMs), 250)]_vars

\* C14 witness: a BPM was computed from an interval of 251 ms, the shortest one
\* that passes the refractory check.
C14_Witness ==
  computed /\ rr = U32(251) /\ gap = 251 /\ newBpm = 239 /\ ~accepted

\* 1 + 2^-20 as a float: the relative tolerance of the comparison in C15 (the
\* roundings of float arithmetic and of the constant 0.05f stay below it)
OnePlusEps == [m |-> 2^23 + 8, e |-> -23]

\* a <= b * (1 + 2^-20)
FLeqAbout(a, b) == ~FGt(a, FMul(b, OnePlusEps))

\* C15: on every tick the new baseline is 0.95 * baseline + 0.05 * sample, that
\* is 20 * ema' = 19 * ema + sample up to the roundings of float arithmetic, it
\* lies between the old baseline and the sample, and the sample is classified
\* against the new baseline; the baseline, 512 at the start, is within
\* [0, 1023] in every reachable state.
C15_Baseline ==
  /\ [](ema.m >= 0 /\ ~FGt(ema, IntToFloat(1023)))
  /\ [][TickStep =>
          LET raw    == IntToFloat(sample')
              twenty == FMul(IntToFloat(20), ema')
              mix    == FAdd(FMul(IntToFloat(19), ema), raw)
          IN  /\ FLeqAbout(twenty, mix) /\ FLeqAbout(mix, twenty)
              /\ FGt(raw, ema) => (~FGt(ema, ema') /\ ~FGt(ema', raw))
              /\ FGt(ema, raw) => (~FGt(ema', ema) /\ ~FGt(raw, ema'))
              /\ raw = ema => ema' = ema
              /\ prevAbove' = FGt(raw, FAdd(ema', IntToFloat(30)))]_vars

\* C15 witness: fed 1023 for more than 300 ticks the baseline has come to rest
\* just below 1023.
C15_Witness ==
  /\ ticks > 300 /\ sample = 1023
  /\ FGt(ema, IntToFloat(1022)) /\ ~FGt(ema, IntToFloat(1023))
  /\ EmaUpdate(ema, 1023) = ema

\* C16: lastBeatMs changes on a tick if and only if the tick has a rising edge
\* more than 250 ms after lastBeatMs; it then becomes the current time, whether
\* or not a BPM was computed or accepted; so lastBeatMs is always the time of the
\* latest edge that passed the refractory check and the next interval is
\* measured from it.
C16_LastBeatUpdate ==
  [][TickStep =>
       LET ok == candidate' /\ U32GtConst(U32Sub(now', lastBeatMs), 250)
       IN  /\ (lastBeatMs' # lastBeatMs) <=> ok
           /\ ok => lastBeatMs' = now'
           /\ (ok /\ (~computed' \/ ~accepted')) => lastBeatMs' = now'
           /\ hasPass' => lastBeatMs' = lastPassMs'
           /\ computed' => rr' = U32Sub(now', lastPassMs)]_vars

\* C16 witness: the edge at 845 ms gave a BPM out of range (173) and was
\* rejected; the next edge, at 1335 ms, is measured from it: 490 ms, BPM 122.
C16_Witness ==
  /\ rejects = 1 /\ accepts = 1 /\ computed /\ accepted
  /\ now = U32(1335) /\ rr = U32(490) /\ bpm = 122 /\ lastBeatMs = now

\* C17 as stated: once a rising edge has passed the refractory check, every later
\* rising edge that passes it computes an interval from the previous accepted
\* timestamp and a BPM candidate.
C17_NeverAwaitingAgain ==
  [][(TickStep /\ hasPass /\ passed')
      => (computed' /\ rr' = U32Sub(now', lastPassMs) /\ newBpm' # NoBpm)]_vars

\* C18: a tick that accepts a BPM candidate writes bpm (and bpmDisplayed), then
\* calls pushGraph once, which shifts the trend buffer and appends the
\* coordinate of that BPM, then calls drawUI, in this order; a tick that accepts
\* none pushes nothing; so the number of pushes is the number of accepted BPMs.
C18_AcceptEffects ==
  /\ [](pushes = accepts)
  /\ [][TickStep =>
          /\ accepted' =>
                /\ Len(events') >= 4
                /\ events'[1] = [op |-> "bpm", site |-> "beat", arg |-> newBpm']
                /\ events'[2] = [op |-> "bpmDisplayed", site |-> "beat",
                                 arg |-> newBpm']
                /\ events'[3] = [op |-> "pushGraph", site |-> "beat",
                                 arg |-> newBpm']
                /\ events'[4] = [op |-> "drawUI", site |-> "beat",
                                 arg |-> newBpm']
                /\ \A k \in 5 .. Len(events') : events'[k].site = "periodic"
                /\ bpm' = newBpm'
                /\ accepts' = accepts + 1 /\ pushes' = pushes + 1
                /\ graphBuf'[128] = mapBpmToY(newBpm')
                /\ \A i \in 1 .. 127 : graphBuf'[i] = graphBuf[i + 1]
          /\ ~accepted' =>
                /\ graphBuf' = graphBuf
                /\ accepts' = accepts /\ pushes' = pushes
                /\ \A k \in 1 .. Len(events') : events'[k].site = "periodic"]_vars

\* C18 witness: the second accepted BPM, on a tick that also makes the periodic
\* redraw after the three steps of the beat.
C18_Witness ==
  /\ accepted /\ accepts = 2 /\ pushes = 2 /\ Len(events) = 5
  /\ events[3].op = "pushGraph" /\ events[3].arg = bpm
  /\ events[5].site = "periodic" /\ events[5].arg = bpm
  /\ graphBuf[128] = mapBpmToY(bpm)

\* C19: bpmDisplayed equals bpm in every reachable state; every redraw shows the
\* placeholder if and only if no BPM has been accepted since startup, and shows
\* the most recently accepted BPM otherwise; a tick that accepts no BPM leaves
\* what is shown as it was, however many such ticks follow one another.
C19_DisplayedBpm ==
  /\ [](bpmDisplayed = bpm)
  /\ [](\A k \in 1 .. Len(events) :
          events[k].op = "drawUI" =>
            /\ (events[k].arg = Placeholder) <=> (accepts = 0)
            /\ accepts > 0 => (events[k].arg = bpm /\ bpm >= 60 /\ bpm <= 130))
  /\ [][(TickStep /\ ~accepted')
          => (bpm' = bpm /\ bpmDisplayed' = bpmDisplayed)]_vars

\* C19 witness: the only BPM accepted so far is 80; 1960 ms or more after that
\* beat, with no rising edge on the tick, the periodic redraw shows 80.
C19_Witness ==
  /\ accepts = 1 /\ bpm = 80 /\ ~candidate /\ gap >= 1960
  /\ Len(events) = 1
  /\ events[1] = [op |-> "drawUI", site |-> "periodic", arg |-> 80]

====
